---- MODULE Spec2Model ----
(***************************************************************************)
(* A model of scanner.py: the WebsiteScanner class (one scanner object,    *)
(* its results dictionary, the position of scan() among its six category   *)
(* methods) and main().  Python strings that the code takes apart (URLs,   *)
(* header names and values, bodies, resolver output) are sequences of      *)
(* one-character strings; fixed labels are TLA+ strings.  The code point   *)
(* U+00B2 (SUPERSCRIPT TWO, the byte 0xB2 of an ISO-8859-1 header) is      *)
(* written "sup2".                                                         *)
(***************************************************************************)
EXTENDS Integers, Sequences, FiniteSets, TLC

VARIABLES
    url,        \* self.url, the target handed to WebsiteScanner(url)
    domain,     \* self.domain
    pc,         \* where main() / scan() stands
    results,    \* the one dictionary object self.results refers to
    reports,    \* what scan() has returned so far, oldest first
    requests,   \* HTTP GET requests issued by the scan() under way
    sockets,    \* TLS connections attempted by the scan() under way
    probe,      \* what the network handed to the category method that ran last
    answered,   \* whether some network call of the scan() under way succeeded
    canned      \* canned (headers, body) of a fingerprint test, 0 if none

vars == <<url, domain, pc, results, reports, requests, sockets, probe, answered,
          canned>>

----------------------------------------------------------------------------
(* Python str operations                                                   *)

UpperCase == <<"A", "B", "C", "D", "E", "F", "G", "H", "I", "J", "K", "L", "M",
               "N", "O", "P", "Q", "R", "S", "T", "U", "V", "W", "X", "Y", "Z">>

LowerCase == <<"a", "b", "c", "d", "e", "f", "g", "h", "i", "j", "k", "l", "m",
               "n", "o", "p", "q", "r", "s", "t", "u", "v", "w", "x", "y", "z">>

Digits == <<"0", "1", "2", "3", "4", "5", "6", "7", "8", "9">>

Range(s) == {s[i] : i \in DOMAIN s}

\* str.lower() of the letters it changes
LowerMap == [c \in Range(UpperCase) |->
                LowerCase[CHOOSE i \in DOMAIN UpperCase : UpperCase[i] = c]]

\* str.lower() of one character
LowerChar(c) == IF c \in DOMAIN LowerMap THEN LowerMap[c] ELSE c

\* str.lower()
Lower(s) == [i \in DOMAIN s |-> LowerChar(s[i])]

\* s[i:].startswith(p)
MatchAt(s, p, i) ==
    /\ i + Len(p) - 1 <= Len(s)
    /\ \A k \in 1..Len(p) : s[i + k - 1] = p[k]

\* s.startswith(p)
StartsWith(s, p) == MatchAt(s, p, 1)

\* p in s
Contains(s, p) == \E i \in 1..(Len(s) - Len(p) + 1) : MatchAt(s, p, i)

\* s.find(p, i), 1-based, 0 when p does not occur from i on
RECURSIVE FindFrom(_, _, _)
FindFrom(s, p, i) ==
    IF i + Len(p) - 1 > Len(s) THEN 0
    ELSE IF MatchAt(s, p, i) THEN i
    ELSE FindFrom(s, p, i + 1)

\* s.find(p)
Find(s, p) == FindFrom(s, p, 1)

\* s.rstrip(c)
RECURSIVE RStrip(_, _)
RStrip(s, c) ==
    IF s # <<>> /\ s[Len(s)] = c THEN RStrip(SubSeq(s, 1, Len(s) - 1), c) ELSE s

\* sep.join(parts)
RECURSIVE Join(_, _)
Join(parts, sep) ==
    IF parts = <<>> THEN <<>>
    ELSE IF Len(parts) = 1 THEN parts[1]
    ELSE parts[1] \o sep \o Join(Tail(parts), sep)

\* the value of one decimal digit
DigitValue(c) == (CHOOSE i \in DOMAIN Digits : Digits[i] = c) - 1

\* str.isdigit(): ASCII digits and the superscript digits of ISO-8859-1 are digits
IsDigitChar(c) == c \in Range(Digits) \/ c = "sup2"

IsDigit(s) == s # <<>> /\ \A i \in DOMAIN s : IsDigitChar(s[i])

\* int(s) accepts only decimal digits; on anything else it raises ValueError
IntRaises(s) == s = <<>> \/ \E i \in DOMAIN s : s[i] \notin Range(Digits)

RECURSIVE ToInt(_)
ToInt(s) ==
    IF s = <<>> THEN 0
    ELSE 10 * ToInt(SubSeq(s, 1, Len(s) - 1)) + DigitValue(s[Len(s)])

\* str(n) for n >= 0
RECURSIVE ToStr(_)
ToStr(n) ==
    IF n < 10 THEN <<Digits[n + 1]>>
    ELSE ToStr(n \div 10) \o <<Digits[(n % 10) + 1]>>

\* f"{num/den:.2f}": two decimals, rounded to nearest; a tie (which a float
\* holds exactly only when den is a power of two) goes to the even digit
Fixed2(num, den) ==
    LET q == (num * 100) \div den
        r == (num * 100) % den
        h == IF 2 * r > den \/ (2 * r = den /\ q % 2 = 1) THEN q + 1 ELSE q
    IN  ToStr(h \div 100) \o <<".">> \o <<Digits[((h % 100) \div 10) + 1]>>
                          \o <<Digits[(h % 10) + 1]>>

S_Unknown == <<"U", "n", "k", "n", "o", "w", "n">>

----------------------------------------------------------------------------
(* urllib.parse.urlparse, as far as the scanner uses it: scheme, netloc and *)
(* the port accessor, for targets without userinfo and query.               *)

SchemeChars == Range(UpperCase) \cup Range(LowerCase) \cup Range(Digits) \cup {"+", "-", "."}

IsAlpha(c) == c \in Range(UpperCase) \cup Range(LowerCase)

\* the position of the ":" that ends a scheme, 0 when the URL has no scheme
SchemeEnd(u) ==
    LET i == Find(u, <<":">>)
    IN  IF i > 1 /\ IsAlpha(u[1]) /\ \A k \in 1..(i - 1) : u[k] \in SchemeChars
        THEN i ELSE 0

UrlScheme(u) == Lower(SubSeq(u, 1, SchemeEnd(u) - 1))

AfterScheme(u) == SubSeq(u, SchemeEnd(u) + 1, Len(u))

\* the netloc: what follows "//" up to the next "/", empty without "//"
UrlNetloc(u) ==
    LET rest == AfterScheme(u)
    IN  IF StartsWith(rest, <<"/", "/">>)
        THEN LET tail  == SubSeq(rest, 3, Len(rest))
                 slash == Find(tail, <<"/">>)
             IN  IF slash = 0 THEN tail ELSE SubSeq(tail, 1, slash - 1)
        ELSE <<>>

\* urlparse(url) raises ValueError("Invalid IPv6 URL")
UrlParseRaises(u) ==
    LET n == Range(UrlNetloc(u))
    IN  ("[" \in n /\ "]" \notin n) \/ ("]" \in n /\ "[" \notin n)

\* the text after the host's ":" (empty when there is none)
PortText(u) ==
    LET n == UrlNetloc(u)
        i == Find(n, <<":">>)
    IN  IF i = 0 THEN <<>> ELSE SubSeq(n, i + 1, Len(n))

\* parsed_url.port raises ValueError (not a number, or out of range 0-65535)
PortRaises(u) ==
    LET p == PortText(u)
    IN  p # <<>> /\ (~IsDigit(p) \/ IntRaises(p) \/ ToInt(p) > 65535)

\* parsed_url.port; None is modelled as 0, which "port or default" treats alike
UrlPort(u) == IF PortText(u) = <<>> THEN 0 ELSE ToInt(PortText(u))

HTTPS_PORT == 443

HTTP_PORT == 80

S_https == <<"h", "t", "t", "p", "s">>

\* parsed_url.port or (443 if parsed_url.scheme == 'https' else 80)
EffectivePort(u) ==
    IF UrlPort(u) # 0 THEN UrlPort(u)
    ELSE IF UrlScheme(u) = S_https THEN HTTPS_PORT ELSE HTTP_PORT

(* The targets of the model *)
T_https == <<"h", "t", "t", "p", "s", ":", "/", "/", "a">>

T_http == <<"h", "t", "t", "p", ":", "/", "/", "a", "/">>

T_httpsx == <<"h", "t", "t", "p", "s", "x", ":", "/", "/", "a">>

T_upper == <<"H", "T", "T", "P", "S", ":", "/", "/", "a">>

T_port == <<"h", "t", "t", "p", ":", "/", "/", "a", ":", "8", "0", "8", "0">>

T_badport == <<"h", "t", "t", "p", ":", "/", "/", "a", ":", "9", "9", "9", "9", "9">>

T_ipv6 == <<"h", "t", "t", "p", ":", "/", "/", "[", "a">>

Targets == {T_https, T_http, T_httpsx, T_upper, T_port, T_badport, T_ipv6}

----------------------------------------------------------------------------
(* String literals of scanner.py *)

S_Server == <<"S", "e", "r", "v", "e", "r">>

S_ContentLength == <<"C", "o", "n", "t", "e", "n", "t", "-", "L", "e", "n", "g", "t", "h">>

S_ContentEncoding == <<"C", "o", "n", "t", "e", "n", "t", "-", "E", "n", "c", "o", "d", "i", "n", "g">>

S_XPoweredBy == <<"X", "-", "P", "o", "w", "e", "r", "e", "d", "-", "B", "y">>

S_HSTS == <<"S", "t", "r", "i", "c", "t", "-", "T", "r", "a", "n", "s", "p", "o", "r", "t", "-", "S", "e", "c", "u", "r", "i", "t", "y">>

S_CSP == <<"C", "o", "n", "t", "e", "n", "t", "-", "S", "e", "c", "u", "r", "i", "t", "y", "-", "P", "o", "l", "i", "c", "y">>

S_XFO == <<"X", "-", "F", "r", "a", "m", "e", "-", "O", "p", "t", "i", "o", "n", "s">>

S_XCTO == <<"X", "-", "C", "o", "n", "t", "e", "n", "t", "-", "T", "y", "p", "e", "-", "O", "p", "t", "i", "o", "n", "s">>

S_XXSS == <<"X", "-", "X", "S", "S", "-", "P", "r", "o", "t", "e", "c", "t", "i", "o", "n">>

S_RP == <<"R", "e", "f", "e", "r", "r", "e", "r", "-", "P", "o", "l", "i", "c", "y">>

S_CacheControl == <<"C", "a", "c", "h", "e", "-", "C", "o", "n", "t", "r", "o", "l">>

S_Expires == <<"E", "x", "p", "i", "r", "e", "s">>

S_ETag == <<"E", "T", "a", "g">>

S_LastModified == <<"L", "a", "s", "t", "-", "M", "o", "d", "i", "f", "i", "e", "d">>

S_Enabled == <<"E", "n", "a", "b", "l", "e", "d">>

S_Disabled == <<"D", "i", "s", "a", "b", "l", "e", "d">>

S_ms == <<"m", "s">>

S_KB == <<" ", "K", "B">>

S_commonName == <<"c", "o", "m", "m", "o", "n", "N", "a", "m", "e">>

S_SslNotEnabled == <<"S", "S", "L", " ", "n", "o", "t", " ", "e", "n", "a", "b", "l", "e", "d">>

S_SslError == <<"S", "S", "L", " ", "e", "r", "r", "o", "r", ":", " ">>

S_AttributeError == <<"'", "t", "u", "p", "l", "e", "'", " ", "o", "b", "j", "e", "c", "t", " ", "h", "a", "s", " ", "n", "o", " ", "a", "t", "t", "r", "i", "b", "u", "t", "e", " ", "'", "g", "e", "t", "'">>

S_IndexError == <<"t", "u", "p", "l", "e", " ", "i", "n", "d", "e", "x", " ", "o", "u", "t", " ", "o", "f", " ", "r", "a", "n", "g", "e">>

S_TimedOut == <<"t", "i", "m", "e", "d", " ", "o", "u", "t">>

S_nameserver == <<"n", "a", "m", "e", "s", "e", "r", "v", "e", "r">>

----------------------------------------------------------------------------
(* What the network can hand to the scanner.  A header block is the        *)
(* sequence of <<name, value>> lines as the server sent them.              *)

\* a WordPress site behind nginx whose front end sends lower-case security headers
R_wordpress ==
    [status  |-> 200,
     headers |-> << <<S_Server, <<"n", "g", "i", "n", "x", "/", "1", ".", "1", "8">>>>,
                    <<Lower(S_HSTS), <<"m", "a", "x", "-", "a", "g", "e", "=", "1">>>>,
                    <<S_XFO, <<"D", "E", "N", "Y">>>>,
                    <<S_ContentLength, <<"2", "0", "4", "8">>>>,
                    <<S_ContentEncoding, <<"g", "z", "i", "p">>>>,
                    <<S_XPoweredBy, <<"P", "H", "P", "/", "8">>>> >>,
     body    |-> <<"W", "P", "-", "C", "o", "n", "t", "e", "n", "t", " ", "d", "r", "u", "p", "a", "l", " ", "j", "q", "u", "e", "r", "y">>]

\* a shop whose server sends lower-case header names and a Content-Length
\* header that holds the byte 0xB2
R_shop ==
    [status  |-> 203,
     headers |-> << <<Lower(S_Server), <<"A", "p", "a", "c", "h", "e", "/", "2", ".", "4">>>>,
                    <<S_CSP, <<"d", "e", "f", "a", "u", "l", "t", "-", "s", "r", "c">>>>,
                    <<S_ContentLength, <<"sup2">> >>,
                    <<S_ETag, <<"x">>>> >>,
     body    |-> <<"c", "d", "n", ".", "s", "h", "o", "p", "i", "f", "y", " ", "x", ".", "p", "y", "'">>]

Responses == <<R_wordpress, R_shop>>

\* the outcome of one urlopen(): 0 is an exception, i > 0 is Responses[i];
\* urlopen raises for a scheme it has no handler for and for a port it cannot read
HttpOutcomes(u) ==
    IF UrlScheme(u) \in {S_https, <<"h", "t", "t", "p">>} /\ ~PortRaises(u)
    THEN 0..Len(Responses) ELSE {0}

\* time.time() - start_time of a fetch, in microseconds
ElapsedMicros == {160}

\* socket.gethostbyname(): <<>> is an exception, else the address;
\* a netloc that carries a port is no host name
Addresses(d) == IF ":" \in Range(d) THEN {<<>>} ELSE {<<>>, <<"1", "0", ".", "0", ".", "0", ".", "1">>}

\* nslookup -type=ns: 0 is an exception (no such program, timeout), else the
\* lines of its standard output, each split at white space
NsOutputs ==
    << << <<<<"S", "e", "r", "v", "e", "r", ":">>, <<"1", "2", "7", ".", "0", ".", "0", ".", "5", "3">>>>,
          <<<<"a">>, <<"n", "a", "m", "e", "s", "e", "r", "v", "e", "r">>, <<"=">>, <<"n", "s", "1", ".", "a", ".">>>>,
          <<<<"a">>, <<"N", "a", "m", "e", "S", "e", "r", "v", "e", "r">>, <<"=">>, <<"n", "s", "2", ".", "a">>>> >>,
       << <<<<"*", "*">>, <<"s", "e", "r", "v", "e", "r">>, <<"c", "a", "n", "'", "t">>, <<"f", "i", "n", "d">>, <<"a", ":">>, <<"N", "X", "D", "O", "M", "A", "I", "N">>>> >> >>

\* ssl getpeercert() of a verified peer: issuer and subject are tuples of
\* relative distinguished names, each a tuple of (key, value) pairs
Tuple(items) == [type |-> "tuple", items |-> items]

Certs ==
    << [issuer    |-> << Tuple(<< <<<<"c", "o", "u", "n", "t", "r", "y", "N", "a", "m", "e">>, <<"U", "S">>>> >>),
                         Tuple(<< <<S_commonName, <<"C", "A">>>> >>) >>,
        subject   |-> << Tuple(<< <<S_commonName, <<"a">>>> >>) >>,
        notBefore |-> <<"J", "a", "n", " ", " ", "1", " ", "2", "0", "2", "6">>,
        notAfter  |-> <<"J", "a", "n", " ", " ", "1", " ", "2", "0", "2", "7">>] >>

\* the outcome of create_connection + wrap_socket: 0 is an exception, i > 0 is
\* a handshake that yields Certs[i]; a netloc that carries a port does not resolve
TlsOutcomes(d) == IF ":" \in Range(d) THEN {0} ELSE 0..Len(Certs)

----------------------------------------------------------------------------
(* http.client.HTTPMessage and dict(response.headers) *)

\* the index of the first header line named n, names compared without case; 0 if none
HeaderIndex(h, n) ==
    IF \E i \in DOMAIN h : Lower(h[i][1]) = Lower(n)
    THEN CHOOSE i \in DOMAIN h :
            /\ Lower(h[i][1]) = Lower(n)
            /\ \A j \in 1..(i - 1) : Lower(h[j][1]) # Lower(n)
    ELSE 0

\* name in response.headers
HeaderIn(h, n) == HeaderIndex(h, n) # 0

\* response.headers.get(name, default)
HeaderGet(h, n, default) == IF HeaderIn(h, n) THEN h[HeaderIndex(h, n)][2] ELSE default

\* dict(response.headers): the names as sent, each with the message's value for it
HeaderDict(h) == [n \in {h[i][1] : i \in DOMAIN h} |-> HeaderGet(h, n, <<>>)]

\* dict.get(key, default)
DictGet(d, k, default) == IF k \in DOMAIN d THEN d[k] ELSE default

----------------------------------------------------------------------------
(* The signature tables.  A pattern is the list of its alternatives; every  *)
(* alternative of these tables is a literal.                                *)

cms_patterns ==
    <<[label |-> <<"W", "o", "r", "d", "P", "r", "e", "s", "s">>,
     pattern |-> <<<<"w", "p", "-", "c", "o", "n", "t", "e", "n", "t">>,
                  <<"w", "p", "-", "i", "n", "c", "l", "u", "d", "e", "s">>,
                  <<"w", "o", "r", "d", "p", "r", "e", "s", "s">>>>],
    [label |-> <<"D", "r", "u", "p", "a", "l">>,
     pattern |-> <<<<"d", "r", "u", "p", "a", "l">>,
                  <<"s", "i", "t", "e", "s", "/", "d", "e", "f", "a", "u", "l", "t">>>>],
    [label |-> <<"J", "o", "o", "m", "l", "a">>,
     pattern |-> <<<<"j", "o", "o", "m", "l", "a">>,
                  <<"o", "p", "t", "i", "o", "n", "=", "c", "o", "m", "_">>>>],
    [label |-> <<"M", "a", "g", "e", "n", "t", "o">>,
     pattern |-> <<<<"m", "a", "g", "e", "n", "t", "o">>,
                  <<"m", "a", "g", "e", "/", "j", "s">>>>],
    [label |-> <<"S", "h", "o", "p", "i", "f", "y">>,
     pattern |-> <<<<"s", "h", "o", "p", "i", "f", "y">>,
                  <<"c", "d", "n", ".", "s", "h", "o", "p", "i", "f", "y">>>>]>>

framework_patterns ==
    <<[label |-> <<"R", "e", "a", "c", "t">>,
     pattern |-> <<<<"r", "e", "a", "c", "t">>,
                  <<"r", "e", "a", "c", "t", "j", "s">>>>],
    [label |-> <<"V", "u", "e", ".", "j", "s">>,
     pattern |-> <<<<"v", "u", "e", ".", "j", "s">>,
                  <<"v", "u", "e", "j", "s">>>>],
    [label |-> <<"A", "n", "g", "u", "l", "a", "r">>,
     pattern |-> <<<<"a", "n", "g", "u", "l", "a", "r">>,
                  <<"n", "g", "-">>>>],
    [label |-> <<"j", "Q", "u", "e", "r", "y">>,
     pattern |-> <<<<"j", "q", "u", "e", "r", "y">>>>]>>

analytics_patterns ==
    <<[label |-> <<"G", "o", "o", "g", "l", "e", " ", "A", "n", "a", "l", "y", "t", "i", "c", "s">>,
     pattern |-> <<<<"g", "o", "o", "g", "l", "e", "-", "a", "n", "a", "l", "y", "t", "i", "c", "s">>,
                  <<"g", "t", "a", "g">>,
                  <<"g", "a", "(">>>>],
    [label |-> <<"G", "o", "o", "g", "l", "e", " ", "T", "a", "g", " ", "M", "a", "n", "a", "g", "e", "r">>,
     pattern |-> <<<<"g", "o", "o", "g", "l", "e", "t", "a", "g", "m", "a", "n", "a", "g", "e", "r">>>>],
    [label |-> <<"F", "a", "c", "e", "b", "o", "o", "k", " ", "P", "i", "x", "e", "l">>,
     pattern |-> <<<<"f", "a", "c", "e", "b", "o", "o", "k", ".", "n", "e", "t", "/", "t", "r">>,
                  <<"f", "b", "q", "(">>>>],
    [label |-> <<"H", "o", "t", "j", "a", "r">>,
     pattern |-> <<<<"h", "o", "t", "j", "a", "r">>>>]>>

language_patterns ==
    <<[label |-> <<"P", "H", "P">>,
     pattern |-> <<<<".", "p", "h", "p", "\"">>,
                  <<".", "p", "h", "p", "'">>>>],
    [label |-> <<"A", "S", "P", ".", "N", "E", "T">>,
     pattern |-> <<<<".", "a", "s", "p", "x", "\"">>,
                  <<".", "a", "s", "p", "x", "'">>>>],
    [label |-> <<"J", "a", "v", "a">>,
     pattern |-> <<<<".", "j", "s", "p", "\"">>,
                  <<".", "j", "s", "p", "'">>>>],
    [label |-> <<"P", "y", "t", "h", "o", "n">>,
     pattern |-> <<<<".", "p", "y", "\"">>,
                  <<".", "p", "y", "'">>>>]>>

S_CustomUnknown == <<"C", "u", "s", "t", "o", "m", "/", "U", "n", "k", "n", "o", "w", "n">>

S_NoneDetected == <<"N", "o", "n", "e", " ", "d", "e", "t", "e", "c", "t", "e", "d">>

S_PHP == <<"P", "H", "P">>

S_ASPNET == <<"A", "S", "P", ".", "N", "E", "T">>

\* re.search(pattern, content): some alternative occurs in content
Search(pattern, content) == \E a \in DOMAIN pattern : Contains(content, pattern[a])

\* re.search(pattern, content, re.IGNORECASE) for the lower-case patterns of the tables
SearchIgnoreCase(pattern, content) == Search(pattern, Lower(content))

----------------------------------------------------------------------------
(* The fingerprint methods *)

\* for label, pattern in table.items(): if re.search(pattern, content,
\* re.IGNORECASE): return label -- from entry i on; default when the loop ends
RECURSIVE FirstMatch(_, _, _, _)
FirstMatch(table, content, i, default) ==
    IF i > Len(table) THEN default
    ELSE IF SearchIgnoreCase(table[i].pattern, content) THEN table[i].label
    ELSE FirstMatch(table, content, i + 1, default)

\* the labels of all entries from i on whose pattern matches, in table order
RECURSIVE AllMatches(_, _, _)
AllMatches(table, content, i) ==
    IF i > Len(table) THEN <<>>
    ELSE (IF SearchIgnoreCase(table[i].pattern, content) THEN <<table[i].label>> ELSE <<>>)
         \o AllMatches(table, content, i + 1)

\* str.split('/')[0]
BeforeSlash(s) ==
    LET i == Find(s, <<"/">>) IN IF i = 0 THEN s ELSE SubSeq(s, 1, i - 1)

detect_web_server(headers) ==
    LET server == DictGet(headers, S_Server, S_Unknown)
    IN  IF server # S_Unknown THEN BeforeSlash(server) ELSE S_Unknown

\* the if / elif chain over the body, case-sensitive, from entry i on
RECURSIVE LanguageOfContent(_, _)
LanguageOfContent(content, i) ==
    IF i > Len(language_patterns) THEN S_Unknown
    ELSE IF Search(language_patterns[i].pattern, content) THEN language_patterns[i].label
    ELSE LanguageOfContent(content, i + 1)

detect_programming_language(headers, content) ==
    LET powered_by == DictGet(headers, S_XPoweredBy, <<>>)
    IN  IF Contains(powered_by, S_PHP) THEN S_PHP
        ELSE IF Contains(powered_by, S_ASPNET) THEN S_ASPNET
        ELSE LanguageOfContent(content, 1)

\* detect_cms without the return inside the loop: the last matching entry wins
RECURSIVE LastMatch(_, _, _, _)
LastMatch(table, content, i, found) ==
    IF i > Len(table) THEN found
    ELSE LastMatch(table, content, i + 1,
                   IF SearchIgnoreCase(table[i].pattern, content)
                   THEN table[i].label ELSE found)

detect_cms_last_wins(content) == LastMatch(cms_patterns, content, 1, S_CustomUnknown)

detect_cms(content) == FirstMatch(cms_patterns, content, 1, S_CustomUnknown)

detect_js_frameworks(content) ==
    LET frameworks == AllMatches(framework_patterns, content, 1)
    IN  IF frameworks # <<>> THEN Join(frameworks, <<",", " ">>) ELSE S_Unknown

detect_analytics(content) == FirstMatch(analytics_patterns, content, 1, S_NoneDetected)

\* the dictionary get_technology_info returns for these headers and this body
TechnologyOf(headers, content) ==
    [web_server            |-> detect_web_server(headers),
     programming_language  |-> detect_programming_language(headers, content),
     cms                   |-> detect_cms(content),
     javascript_frameworks |-> detect_js_frameworks(content),
     analytics             |-> detect_analytics(content)]

\* f: the outcome of the method's urlopen()
get_technology_info(f) ==
    IF f = 0 THEN TechnologyOf(<<>>, <<>>)
    ELSE TechnologyOf(HeaderDict(Responses[f].headers), Responses[f].body)

----------------------------------------------------------------------------
(* The probes and the category methods.  Each takes the outcomes of the    *)
(* network calls it makes, in the order it makes them.                     *)

\* an int or a str in one field of a dictionary
PyInt(n) == [type |-> "int", int |-> n, str |-> <<>>]

PyStr(s) == [type |-> "str", int |-> 0, str |-> s]

\* get_basic_info raises: parsed_url.port is read outside the try
BasicInfoRaises(u) == PortRaises(u)

get_basic_info(u, d, f) ==
    [url         |-> u,
     domain      |-> d,
     status_code |-> IF f = 0 THEN PyStr(S_Unknown) ELSE PyInt(Responses[f].status),
     protocol    |-> UrlScheme(u),
     port        |-> EffectivePort(u)]

get_location_info(ip) == [country |-> S_Unknown, city |-> S_Unknown, isp |-> S_Unknown]

\* a: the outcome of gethostbyname, f: of urlopen
get_server_info(a, f) ==
    LET ip_address == IF a = <<>> THEN S_Unknown ELSE a
        server     == IF f = 0 THEN S_Unknown
                      ELSE HeaderGet(Responses[f].headers, S_Server, S_Unknown)
        location_info == get_location_info(ip_address)
    IN  [ip_address |-> ip_address,
         server     |-> server,
         location   |-> location_info.country,
         city       |-> location_info.city,
         isp        |-> location_info.isp]

\* the name servers of the output lines from line i on
RECURSIVE NameServersOf(_, _)
NameServersOf(lines, i) ==
    IF i > Len(lines) THEN <<>>
    ELSE (IF \E w \in DOMAIN lines[i] : Contains(Lower(lines[i][w]), S_nameserver)
          THEN <<RStrip(lines[i][Len(lines[i])], ".")>> ELSE <<>>)
         \o NameServersOf(lines, i + 1)

\* n: the outcome of the nslookup run
get_name_servers(n) ==
    IF n = 0 THEN S_Unknown
    ELSE LET nameservers == NameServersOf(NsOutputs[n], 1)
         IN  IF nameservers # <<>> THEN Join(nameservers, <<",", " ">>) ELSE S_Unknown

get_domain_info(n) ==
    [registrar     |-> S_Unknown,
     creation_date |-> S_Unknown,
     expiry_date   |-> S_Unknown,
     name_servers  |-> get_name_servers(n),
     dnssec        |-> S_Unknown]

\* whether get_ssl_info opens a socket for this target
SslConnects(u) == StartsWith(u, S_https)

\* name[0].get('commonName', 'Unknown') raises: name is a tuple of tuples
CommonNameRaises(name) == name = <<>> \/ name[1].type # "dict"

CommonNameError(name) == IF name = <<>> THEN S_IndexError ELSE S_AttributeError

CommonName(name) == DictGet(name[1].items, S_commonName, S_Unknown)

\* the value of commonName among the relative distinguished names, 'Unknown' if none
RECURSIVE CommonNameOfTuples(_, _)
CommonNameOfTuples(name, i) ==
    IF i > Len(name) THEN S_Unknown
    ELSE IF \E k \in DOMAIN name[i].items : name[i].items[k][1] = S_commonName
    THEN LET k == CHOOSE k \in DOMAIN name[i].items : name[i].items[k][1] = S_commonName
         IN  name[i].items[k][2]
    ELSE CommonNameOfTuples(name, i + 1)

\* get_ssl_info reading the common names out of the tuples getpeercert() returns
get_ssl_info_reading_tuples(u, t) ==
    IF ~SslConnects(u) THEN [enabled |-> FALSE, message |-> S_SslNotEnabled]
    ELSE IF t = 0 THEN [enabled |-> FALSE, message |-> S_SslError \o S_TimedOut]
    ELSE [enabled    |-> TRUE,
          issuer     |-> CommonNameOfTuples(Certs[t].issuer, 1),
          valid_from |-> Certs[t].notBefore,
          valid_to   |-> Certs[t].notAfter,
          subject    |-> CommonNameOfTuples(Certs[t].subject, 1)]

\* t: the outcome of the connection and handshake
get_ssl_info(u, t) ==
    IF ~SslConnects(u) THEN [enabled |-> FALSE, message |-> S_SslNotEnabled]
    ELSE IF t = 0 THEN [enabled |-> FALSE, message |-> S_SslError \o S_TimedOut]
    ELSE LET cert == Certs[t]
         IN  IF CommonNameRaises(cert.issuer)
             THEN [enabled |-> FALSE,
                   message |-> S_SslError \o CommonNameError(cert.issuer)]
             ELSE IF CommonNameRaises(cert.subject)
             THEN [enabled |-> FALSE,
                   message |-> S_SslError \o CommonNameError(cert.subject)]
             ELSE [enabled    |-> TRUE,
                   issuer     |-> CommonName(cert.issuer),
                   valid_from |-> cert.notBefore,
                   valid_to   |-> cert.notAfter,
                   subject    |-> CommonName(cert.subject)]

security_header_names == <<S_HSTS, S_CSP, S_XFO, S_XCTO, S_XXSS, S_RP>>

\* f: the outcome of the method's urlopen()
get_security_headers(f) ==
    IF f = 0 THEN [n \in {} |-> <<>>]
    ELSE LET headers == HeaderDict(Responses[f].headers)
         IN  [n \in {m \in Range(security_header_names) : m \in DOMAIN headers}
                 |-> headers[n]]

get_security_info(u, t, f) ==
    LET ssl_info         == get_ssl_info(u, t)
        security_headers == get_security_headers(f)
    IN  [ssl_certificate         |-> ssl_info,
         security_headers        |-> security_headers,
         hsts_enabled            |-> S_HSTS \in DOMAIN security_headers,
         content_security_policy |-> S_CSP \in DOMAIN security_headers]

check_compression(f) ==
    IF f = 0 THEN S_Unknown
    ELSE IF HeaderIn(Responses[f].headers, S_ContentEncoding) THEN S_Enabled
    ELSE S_Disabled

cache_headers == <<S_CacheControl, S_Expires, S_ETag, S_LastModified>>

\* check_caching whose except branch answers like the end of the loop
check_caching_no_unknown(f) ==
    IF f # 0 /\ \E i \in DOMAIN cache_headers : HeaderIn(Responses[f].headers, cache_headers[i])
    THEN S_Enabled
    ELSE S_Disabled

check_caching(f) ==
    IF f = 0 THEN S_Unknown
    ELSE IF \E i \in DOMAIN cache_headers : HeaderIn(Responses[f].headers, cache_headers[i])
    THEN S_Enabled
    ELSE S_Disabled

\* content_length of get_performance_info
ContentLength(f) ==
    IF f = 0 THEN S_Unknown ELSE HeaderGet(Responses[f].headers, S_ContentLength, S_Unknown)

BYTES_PER_KB == 1024

\* get_performance_info raises: int(content_length) is evaluated outside the try
PerformanceInfoRaises(f) ==
    LET content_length == ContentLength(f)
    IN  content_length # S_Unknown /\ IsDigit(content_length) /\ IntRaises(content_length)

\* f, fc, fk: the outcomes of the three urlopen() calls, e: the elapsed microseconds
get_performance_info(f, e, fc, fk) ==
    LET content_length == ContentLength(f)
    IN  [response_time |-> IF f # 0 THEN Fixed2(e, 1000) \o S_ms ELSE S_Unknown,
         compression   |-> check_compression(fc),
         caching       |-> check_caching(fk),
         page_size     |-> IF content_length # S_Unknown /\ IsDigit(content_length)
                           THEN Fixed2(ToInt(content_length), BYTES_PER_KB) \o S_KB
                           ELSE S_Unknown]

----------------------------------------------------------------------------
(* main(), WebsiteScanner.__init__ and WebsiteScanner.scan *)

\* how many times scan() is called on one scanner
MaxScans == 2

\* datetime.now().isoformat()
Clock == {<<"2", "0", "2", "6", "-", "0", "1", "-", "0", "1", "T", "0", "0", ":", "0", "0", ":", "0", "0">>}

S_PortError == <<"P", "o", "r", "t", " ", "o", "u", "t", " ", "o", "f", " ", "r", "a", "n", "g", "e", " ", "0", "-", "6", "5", "5", "3", "5">>

S_IntError == <<"i", "n", "v", "a", "l", "i", "d", " ", "l", "i", "t", "e", "r", "a", "l", " ", "f", "o", "r", " ", "i", "n", "t", "(", ")", " ", "w", "i", "t", "h", " ", "b", "a", "s", "e", " ", "1", "0">>

NoProbe == [http |-> <<>>, addr |-> <<>>, ns |-> 0, tls |-> 0, elapsed |-> 0]

\* self.results[key] = value
Put(d, key, value) == [k \in DOMAIN d \cup {key} |-> IF k = key THEN value ELSE d[k]]

\* the dictionary a report's 'data' refers to: scan() returns self.results itself
Deref(ref) == results

\* return {'success': True, 'data': self.results, 'scan_time': ...}
SuccessReport(now) == [success |-> TRUE, data |-> "self.results", scan_time |-> now]

\* except Exception as e: return {'success': False, 'error': str(e)}
FailureReport(e) == [success |-> FALSE, error |-> e]

Init ==
    /\ url \in Targets
    /\ domain = <<>>
    /\ pc = "main"
    /\ results = [k \in {} |-> <<>>]
    /\ reports = <<>>
    /\ requests = 0
    /\ sockets = 0
    /\ probe = NoProbe
    /\ answered = FALSE
    /\ canned = 0

\* scanner = WebsiteScanner(url); urlparse raising ends main() with a traceback
Construct ==
    /\ pc = "main"
    /\ IF UrlParseRaises(url)
       THEN /\ pc' = "uncaught"
            /\ UNCHANGED <<domain, results>>
       ELSE /\ domain' = UrlNetloc(url)
            /\ results' = [k \in {} |-> <<>>]
            /\ pc' = "scan"
    /\ UNCHANGED <<url, reports, requests, sockets, probe, answered, canned>>

\* scan() is entered and calls get_basic_info
GetBasicInfo ==
    /\ pc = "scan"
    /\ \E f \in HttpOutcomes(url) :
        /\ probe' = [NoProbe EXCEPT !.http = <<f>>]
        /\ answered' = (f # 0)
        /\ requests' = 1
        /\ sockets' = 0
        /\ IF BasicInfoRaises(url)
           THEN /\ reports' = Append(reports, FailureReport(S_PortError))
                /\ pc' = "returned"
                /\ UNCHANGED results
           ELSE /\ results' = Put(results, "basic_info", get_basic_info(url, domain, f))
                /\ pc' = "server_info"
                /\ UNCHANGED reports
    /\ UNCHANGED <<url, domain, canned>>

GetServerInfo ==
    /\ pc = "server_info"
    /\ \E a \in Addresses(domain), f \in HttpOutcomes(url) :
        /\ probe' = [NoProbe EXCEPT !.http = <<f>>, !.addr = a]
        /\ results' = Put(results, "server_info", get_server_info(a, f))
        /\ answered' = (answered \/ a # <<>> \/ f # 0)
    /\ requests' = requests + 1
    /\ pc' = "domain_info"
    /\ UNCHANGED <<url, domain, reports, sockets, canned>>

GetDomainInfo ==
    /\ pc = "domain_info"
    /\ \E n \in 0..Len(NsOutputs) :
        /\ probe' = [NoProbe EXCEPT !.ns = n]
        /\ results' = Put(results, "domain_info", get_domain_info(n))
        /\ answered' = (answered \/ n # 0)
    /\ pc' = "security_info"
    /\ UNCHANGED <<url, domain, reports, requests, sockets, canned>>

GetSecurityInfo ==
    /\ pc = "security_info"
    /\ \E t \in (IF SslConnects(url) THEN TlsOutcomes(domain) ELSE {0}),
          f \in HttpOutcomes(url) :
        /\ probe' = [NoProbe EXCEPT !.http = <<f>>, !.tls = t]
        /\ results' = Put(results, "security_info", get_security_info(url, t, f))
        /\ answered' = (answered \/ t # 0 \/ f # 0)
    /\ sockets' = sockets + (IF SslConnects(url) THEN 1 ELSE 0)
    /\ requests' = requests + 1
    /\ pc' = "performance_info"
    /\ UNCHANGED <<url, domain, reports, canned>>

GetPerformanceInfo ==
    /\ pc = "performance_info"
    /\ \E f \in HttpOutcomes(url), fc \in HttpOutcomes(url), fk \in HttpOutcomes(url),
          e \in ElapsedMicros :
        /\ probe' = [NoProbe EXCEPT !.http = <<f, fc, fk>>, !.elapsed = e]
        /\ answered' = (answered \/ f # 0 \/ fc # 0 \/ fk # 0)
        /\ IF PerformanceInfoRaises(f)
           THEN /\ reports' = Append(reports, FailureReport(S_IntError))
                /\ pc' = "returned"
                /\ UNCHANGED results
           ELSE /\ results' = Put(results, "performance_info",
                                  get_performance_info(f, e, fc, fk))
                /\ pc' = "technology_info"
                /\ UNCHANGED reports
    /\ requests' = requests + 3
    /\ UNCHANGED <<url, domain, sockets, canned>>

GetTechnologyInfo ==
    /\ pc = "technology_info"
    /\ \E f \in HttpOutcomes(url) :
        /\ probe' = [NoProbe EXCEPT !.http = <<f>>]
        /\ results' = Put(results, "technology_info", get_technology_info(f))
        /\ answered' = (answered \/ f # 0)
    /\ requests' = requests + 1
    /\ pc' = "return"
    /\ UNCHANGED <<url, domain, reports, sockets, canned>>

\* the return statement of scan()'s try block
Return ==
    /\ pc = "return"
    /\ \E now \in Clock : reports' = Append(reports, SuccessReport(now))
    /\ pc' = "returned"
    /\ UNCHANGED <<url, domain, results, requests, sockets, probe, answered, canned>>

Next ==
    \/ Construct
    \/ GetBasicInfo
    \/ GetServerInfo
    \/ GetDomainInfo
    \/ GetSecurityInfo
    \/ GetPerformanceInfo
    \/ GetTechnologyInfo
    \/ Return

\* main(): one scanner, one scan()
Spec == Init /\ [][Next]_vars

\* scan() is called again on the scanner that has returned
Rescan ==
    /\ pc = "returned"
    /\ Len(reports) < MaxScans
    /\ pc' = "scan"
    /\ UNCHANGED <<url, domain, results, reports, requests, sockets, probe, answered,
                   canned>>

NextRescan == Next \/ Rescan

\* the targets of a caller that keeps the scanner
RescanTargets == {T_http, T_badport}

InitRescan == Init /\ url \in RescanTargets

\* a caller that keeps the scanner and scans again
SpecRescan == InitRescan /\ [][NextRescan]_vars

----------------------------------------------------------------------------
(* The fingerprint methods on canned input, without a network *)

\* how many fragments a canned body is made of, at most
MaxFragments == 2

Fragments ==
    {<<"w", "p", "-", "c", "o", "n", "t", "e", "n", "t">>,
     <<"W", "P", "-", "I", "n", "c", "l", "u", "d", "e", "s">>,
     <<"W", "o", "r", "d", "P", "r", "e", "s", "s">>,
     <<"w", "p", "-">>,
     <<"c", "o", "n", "t", "e", "n", "t">>,
     <<"D", "r", "u", "p", "a", "l">>,
     <<"s", "i", "t", "e", "s", "/", "d", "e", "f", "a", "u", "l", "t">>,
     <<"j", "o", "o", "m", "l", "a">>,
     <<"o", "p", "t", "i", "o", "n", "=", "c", "o", "m", "_">>,
     <<"M", "a", "g", "e", "n", "t", "o">>,
     <<"m", "a", "g", "e", "/", "j", "s">>,
     <<"S", "h", "o", "p", "i", "f", "y">>,
     <<"c", "d", "n", ".">>,
     <<"h", "e", "l", "l", "o", " ">>}

\* the bodies made of at most n fragments
RECURSIVE BodiesUpTo(_)
BodiesUpTo(n) ==
    IF n = 0 THEN {<<>>}
    ELSE LET shorter == BodiesUpTo(n - 1)
         IN  shorter \cup {b \o f : b \in shorter, f \in Fragments}

CannedHeaders == {<<>>, R_wordpress.headers}

InitFingerprint ==
    /\ url = T_http
    /\ domain = UrlNetloc(T_http)
    /\ pc = "canned"
    /\ results = [k \in {} |-> <<>>]
    /\ reports = <<>>
    /\ requests = 0
    /\ sockets = 0
    /\ probe = NoProbe
    /\ answered = FALSE
    /\ canned \in [headers : CannedHeaders, body : BodiesUpTo(MaxFragments)]

\* the detect_* methods applied to the canned headers and body
Fingerprint ==
    /\ pc = "canned"
    /\ results' = Put(results, "technology_info",
                      TechnologyOf(HeaderDict(canned.headers), canned.body))
    /\ pc' = "fingerprinted"
    /\ UNCHANGED <<url, domain, reports, requests, sockets, probe, answered, canned>>

SpecFingerprint == InitFingerprint /\ [][Fingerprint]_vars

----------------------------------------------------------------------------
(* The claims *)

\* the report the last scan() returned
LastReport == reports[Len(reports)]

\* the target parses: neither urlparse nor the port accessor raises
Parses(u) == ~UrlParseRaises(u) /\ ~PortRaises(u)

\* C1: once the target has parsed, scan() returns success = true whatever
\* the probes and the responses were.
C1_ParsedTargetAlwaysSucceeds ==
    (pc = "returned" /\ Parses(url)) => LastReport.success

\* C2: for a well-formed URL, when every network call of the scan fails, scan()
\* returns success = true and every field holds its documented unknown default.
C2_AllProbesFailGivesDefaults ==
    (pc = "returned" /\ Parses(url) /\ ~answered) =>
        /\ LastReport.success
        /\ LET data == Deref(LastReport.data)
           IN  /\ data.basic_info.status_code = PyStr(S_Unknown)
               /\ data.server_info.ip_address = S_Unknown
               /\ data.server_info.server = S_Unknown
               /\ data.domain_info.name_servers = S_Unknown
               /\ data.security_info.ssl_certificate.enabled = FALSE
               /\ data.performance_info.response_time = S_Unknown
               /\ data.performance_info.compression = S_Unknown
               /\ data.performance_info.caching = S_Unknown
               /\ data.performance_info.page_size = S_Unknown
               /\ data.technology_info.web_server = S_Unknown
               /\ data.technology_info.programming_language = S_Unknown
               /\ data.technology_info.cms = S_CustomUnknown
               /\ data.technology_info.analytics = S_NoneDetected

\* a well-formed https target whose every network call failed, scan() returned
C2_Witness ==
    /\ pc = "returned"
    /\ url = T_https
    /\ ~answered
    /\ requests = 7
    /\ sockets = 1
    /\ LastReport.success

\* the field names of each section of a report
SectionFields ==
    [basic_info       |-> {"url", "domain", "status_code", "protocol", "port"},
     server_info      |-> {"ip_address", "server", "location", "city", "isp"},
     domain_info      |-> {"registrar", "creation_date", "expiry_date", "name_servers",
                           "dnssec"},
     security_info    |-> {"ssl_certificate", "security_headers", "hsts_enabled",
                           "content_security_policy"},
     performance_info |-> {"response_time", "compression", "caching", "page_size"},
     technology_info  |-> {"web_server", "programming_language", "cms",
                           "javascript_frameworks", "analytics"}]

\* C3: the field names of a report are the same for every combination of probe
\* successes and failures, at each level: the six sections, the fields of each
\* section, the fields of ssl_certificate.
C3_ReportShapeIsFixed ==
    /\ \A k \in DOMAIN results : DOMAIN results[k] = SectionFields[k]
    /\ "security_info" \in DOMAIN results =>
            DOMAIN results.security_info.ssl_certificate = {"enabled", "message"}
    /\ (pc = "returned" /\ LastReport.success) => DOMAIN results = DOMAIN SectionFields

\* get_security_info has run on an https target whose handshake succeeded while
\* its fetch failed
C3_Witness ==
    /\ pc = "performance_info"
    /\ SslConnects(url)
    /\ probe.tls # 0
    /\ probe.http = <<0>>
    /\ "security_info" \in DOMAIN results

\* C4: during one scan() at most one HTTP GET request is issued to the target.
C4_AtMostOneRequest == requests <= 1

\* C5: for a target whose scheme is not https the TLS probe opens no socket and
\* returns enabled = false.
C5_NoSocketUnlessHttps ==
    UrlScheme(url) # S_https =>
        /\ sockets = 0
        /\ "security_info" \in DOMAIN results =>
                results.security_info.ssl_certificate.enabled = FALSE

\* C6: for an https target whose TLS handshake succeeds with a certificate that
\* carries an issuer and a subject, the TLS probe returns enabled = true.
C6_HandshakeGivesEnabled ==
    (/\ pc = "performance_info"
     /\ UrlScheme(url) = S_https
     /\ probe.tls # 0
     /\ Certs[probe.tls].issuer # <<>>
     /\ Certs[probe.tls].subject # <<>>) =>
        results.security_info.ssl_certificate.enabled = TRUE

\* C7: a target that cannot be parsed never escapes as an uncaught error: it
\* yields a report with success = false.
C7_UnparseableTargetIsReported ==
    /\ pc # "uncaught"
    /\ (pc = "returned" /\ UrlParseRaises(url)) => ~LastReport.success

\* C8: security_headers holds exactly the names of the allow-list present on the
\* response, presence decided without regard to case, each with its value, and
\* hsts_enabled tells whether Strict-Transport-Security is present.
C8_SecurityHeadersIgnoreCase ==
    (pc = "performance_info" /\ probe.http[1] # 0) =>
        LET sent  == Responses[probe.http[1]].headers
            found == results.security_info.security_headers
        IN  /\ DOMAIN found = {n \in Range(security_header_names) : HeaderIn(sent, n)}
            /\ \A n \in DOMAIN found : found[n] = HeaderGet(sent, n, <<>>)
            /\ results.security_info.hsts_enabled = HeaderIn(sent, S_HSTS)

\* the labels of the CMS table in its order
CmsOrder == <<<<"W", "o", "r", "d", "P", "r", "e", "s", "s">>, <<"D", "r", "u", "p", "a", "l">>, <<"J", "o", "o", "m", "l", "a">>, <<"M", "a", "g", "e", "n", "t", "o">>, <<"S", "h", "o", "p", "i", "f", "y">>>>

\* entry i of the CMS table matches the body, case ignored
CmsMatches(body, i) ==
    \E a \in DOMAIN cms_patterns[i].pattern :
        LET alt == cms_patterns[i].pattern[a]
        IN  \E at \in 1..Len(body) :
                /\ at + Len(alt) - 1 <= Len(body)
                /\ \A k \in 1..Len(alt) : LowerChar(body[at + k - 1]) = alt[k]

\* C9: detect_cms returns the first label in table order whose pattern matches
\* the body, case ignored, 'Custom/Unknown' exactly when none matches, and
\* 'WordPress' for a body that contains 'wp-content'.
C9_FirstCmsInTableOrder ==
    pc = "fingerprinted" =>
        LET body    == canned.body
            cms     == results.technology_info.cms
            matches == {i \in DOMAIN CmsOrder : CmsMatches(body, i)}
        IN  /\ (cms = S_CustomUnknown) <=> (matches = {})
            /\ matches # {} =>
                  \E i \in matches : /\ cms = CmsOrder[i]
                                     /\ \A j \in matches : i <= j
            /\ Contains(body, <<"w", "p", "-", "c", "o", "n", "t", "e", "n", "t">>) => cms = CmsOrder[1]

\* a body that matches the WordPress entry and a later one has been classified
C9_Witness ==
    /\ pc = "fingerprinted"
    /\ CmsMatches(canned.body, 1)
    /\ \E j \in 2..Len(CmsOrder) : CmsMatches(canned.body, j)
    /\ results.technology_info.cms = CmsOrder[1]

\* C10: a report that scan() has returned is not changed by a later operation.
C10_ReturnedReportIsImmutable ==
    [][\A i \in DOMAIN reports :
          reports[i].success => Deref(reports[i].data)' = Deref(reports[i].data)]_vars

====
